---- MODULE Spec2Model ----
(***************************************************************************)
(* Webotron's sync engine: BucketManager (bucket.py) and the `sync`        *)
(* command of the CLI (webotron.py).                                       *)
(*                                                                         *)
(* Byte strings are sequences of segments.  A segment of a file is the     *)
(* record [id, off, len]: `len` bytes at offset `off` of the byte stream   *)
(* `id`.  MD5 is modelled as collision free: the hash object of `data` is  *)
(* the record [md5 |-> data].  Python strings are sequences of tokens.     *)
(* Paths are sequences of components, as pathlib's `parts`.                *)
(***************************************************************************)
EXTENDS Integers, Sequences, FiniteSets, TLC

\* bucket.py:20
CHUNK_SIZE == 8388608

\* Number of sync invocations in one behaviour.
MaxRuns == 2
\* Keys per page of the list_objects_v2 paginator.
MaxKeys == 2

-----------------------------------------------------------------------------
(* Python values *)

None == [type |-> "NoneType"]
Str(s) == [type |-> "str", s |-> s]
Tuple(t) == [type |-> "tuple", items |-> t]
Quote == [ch |-> "\""]
Dash == [ch |-> "-"]

Min(a, b) == IF a <= b THEN a ELSE b

-----------------------------------------------------------------------------
(* Files and their contents *)

Content(i, n) == [id |-> i, size |-> n]
Empty == Content(0, 0)
Small == Content(1, 1)
Exact == Content(2, CHUNK_SIZE)
Over == Content(3, CHUNK_SIZE + 1)
TwoPlus == Content(4, 2 * CHUNK_SIZE + 1)

File(c, r) == [kind |-> "file", content |-> c, readable |-> r]
Directory == [kind |-> "dir", content |-> Empty, readable |-> TRUE]
Special == [kind |-> "other", content |-> Empty, readable |-> TRUE]

Cwd == <<"/">>
Home == <<"/", "home">>
PathA == Home \o <<"a">>
PathD == Home \o <<"d">>
PathS == PathD \o <<"s">>
PathE == PathD \o <<"e">>
PathB == PathE \o <<"b">>
PathC == PathD \o <<"c">>
AllPaths == {Cwd, Home, PathA, PathD, PathS, PathE, PathB, PathC}

\* /home holds the file a and the directory d; d holds the file c, the entry
\* s, which is neither a file nor a directory, and the directory e; e holds
\* the file b.
Tree(ea, eb) ==
    [p \in AllPaths |->
        IF p = PathA THEN ea
        ELSE IF p = PathB THEN eb
        ELSE IF p = PathC THEN File(Small, TRUE)
        ELSE IF p = PathS THEN Special
        ELSE Directory]

AChoices == {File(Empty, TRUE), File(Small, TRUE), File(Over, TRUE)}
BChoices == {File(Small, FALSE), File(Exact, TRUE), File(TwoPlus, TRUE)}
Trees == {Tree(ea, eb) : ea \in AChoices, eb \in BChoices}

\* The arguments passed as pathname.
Pathnames == {<<"home">>, <<"~", "d">>, <<"home", "a">>, <<"/", "nope">>}
BucketNames == {"B1", "B2"}
Engines == {"BucketManager", "cli"}

VARIABLES
    fs,           \* the local filesystem: path -> entry
    buckets,      \* the object store: bucket name -> (key -> object)
    manifest,     \* BucketManager.manifest: key -> ETag
    pc,           \* position of the current sync invocation
    engine,       \* which sync is running: BucketManager.sync or the CLI's
    pathname,     \* argument of sync, until it is resolved
    bucket_name,  \* argument of sync
    root,         \* the resolved root
    stack,        \* the handle_directory frames: [target, remaining]
    calls,        \* upload_file calls of this invocation: <<path, key>> -> count
    etags,        \* the etag upload_file computed, by key
    uploaded,     \* keys for which bucket.upload_file was invoked ("Uploading")
    skipped,      \* keys skipped ("Skipping ..., etags match")
    net,          \* object-store calls issued by this invocation
    ret,          \* value returned by sync
    error,        \* exception that left sync
    runs,         \* number of sync invocations so far
    repeat        \* this invocation repeats the one before it, which returned

vars == <<fs, buckets, manifest, pc, engine, pathname, bucket_name, root, stack,
          calls, etags, uploaded, skipped, net, ret, error, runs, repeat>>

-----------------------------------------------------------------------------
(* pathlib *)

Kind(p) == IF p \in DOMAIN fs THEN fs[p].kind ELSE "none"
exists(p) == Kind(p) # "none"
is_dir(p) == Kind(p) = "dir"
is_file(p) == Kind(p) = "file"
parent(p) == SubSeq(p, 1, Len(p) - 1)

expanduser(p) == IF p # <<>> /\ p[1] = "~" THEN Home \o Tail(p) ELSE p
resolve(p) == IF p # <<>> /\ p[1] = "/" THEN p ELSE Cwd \o p
relative_to(p, r) == SubSeq(p, Len(r) + 1, Len(p))

RECURSIVE as_posix(_)
as_posix(parts) ==
    IF Len(parts) <= 1 THEN parts
    ELSE <<parts[1], "/">> \o as_posix(Tail(parts))

\* Every path below target, not only its own entries.
iterdir_deep(target) ==
    {p \in DOMAIN fs : Len(p) > Len(target) /\ SubSeq(p, 1, Len(target)) = target}

iterdir(target) == {p \in DOMAIN fs : Len(p) > 1 /\ parent(p) = target}

\* click.Path(exists=True): os.path.exists of the argument as typed.
click_path_exists(p) == exists(resolve(p))

-----------------------------------------------------------------------------
(* ETags *)

\* f.read(n) at position pos of a file holding `content`.
f_read(content, pos, n) ==
    IF pos >= content.size THEN <<>>
    ELSE <<[id |-> content.id, off |-> pos, len |-> Min(n, content.size - pos)]>>

DataLen(data) == IF data = <<>> THEN 0 ELSE data[1].len

hash_data(data) == [md5 |-> data]
hexdigest(h) == <<[hex |-> h]>>
digest(h) == <<[bin |-> h]>>

\* The `while True` loop of gen_etag: one hash per chunk read.
RECURSIVE read_hashes(_, _)
read_hashes(content, pos) ==
    LET data == f_read(content, pos, CHUNK_SIZE)
    IN  IF data = <<>> THEN <<>>
        ELSE <<hash_data(data)>> \o read_hashes(content, pos + DataLen(data))

\* reduce(lambda x, y: x + y, (h.digest() for h in hashes))
RECURSIVE reduce_digests(_)
reduce_digests(hashes) ==
    IF Len(hashes) = 1 THEN digest(hashes[1])
    ELSE digest(hashes[1]) \o reduce_digests(Tail(hashes))

format_etag(hashes) ==
    IF hashes = <<>> THEN None
    ELSE IF Len(hashes) = 1
         THEN Str(<<Quote>> \o hexdigest(hashes[1]) \o <<Quote>>)
         ELSE Str(<<Quote>> \o hexdigest(hash_data(reduce_digests(hashes)))
                  \o <<Dash, [num |-> Len(hashes)]>> \o <<Quote>>)

\* A fingerprint of the whole file in one piece, whatever its size.
gen_etag_unchunked(content) ==
    format_etag(IF content.size = 0 THEN <<>>
                ELSE <<hash_data(f_read(content, 0, content.size))>>)

gen_etag(content) == format_etag(read_hashes(content, 0))

\* The ETag the store lists for an object uploaded with transfer_config.  The
\* store is not part of the repository: it is modelled as the code takes it to
\* be, hashing the body in parts of multipart_chunksize as gen_etag does.  The
\* ETag of a stored object is always a string: an empty body has the MD5 of
\* zero bytes.
S3ETag(content) ==
    LET parts == read_hashes(content, 0)
    IN  IF Len(parts) <= 1
        THEN Str(<<Quote>>
                 \o hexdigest(hash_data(f_read(content, 0, content.size)))
                 \o <<Quote>>)
        ELSE Str(<<Quote>> \o hexdigest(hash_data(reduce_digests(parts)))
                 \o <<Dash, [num |-> Len(parts)]>> \o <<Quote>>)

-----------------------------------------------------------------------------
(* The object store *)

Object(c) == [content |-> c, etag |-> S3ETag(c)]
NoObjects == [k \in {} |-> Object(Empty)]

\* An upload that leaves the bucket with the uploaded object alone.
PutObjectOnly(objs, key, obj) == [k \in {key} |-> obj]

\* Bucket.upload_file(path, key): the object at `key` is replaced.
PutObject(objs, key, obj) ==
    [k \in DOMAIN objs \cup {key} |-> IF k = key THEN obj ELSE objs[k]]

\* paginator.paginate(Bucket=...): the listing, MaxKeys objects to a page.
RECURSIVE paginate(_, _)
paginate(objs, keys) ==
    IF keys = {} THEN <<>>
    ELSE LET page == CHOOSE P \in SUBSET keys :
                        Cardinality(P) = Min(MaxKeys, Cardinality(keys))
         IN  <<[k \in page |-> objs[k].etag]>> \o paginate(objs, keys \ page)

\* self.manifest[obj['Key']] = obj['ETag'] for the objects of one page.
store_page(m, page) ==
    [k \in DOMAIN m \cup DOMAIN page |-> IF k \in DOMAIN page THEN page[k] ELSE m[k]]

RECURSIVE store_pages(_, _)
store_pages(m, pages) ==
    IF pages = <<>> THEN m
    ELSE store_pages(store_page(m, Head(pages)), Tail(pages))

load_manifest(m, objs) == store_pages(m, paginate(objs, DOMAIN objs))

\* self.manifest.get(key, '') == etag
manifest_get(m, key, default) == IF key \in DOMAIN m THEN m[key] ELSE default
\* self.manifest.get(key) == etag: a missing key compares as None.
etags_match_none(m, key, etag) == manifest_get(m, key, None) = etag

etags_match(m, key, etag) == manifest_get(m, key, Str(<<>>)) = etag

KeyA == <<"a">>
KeyB == <<"d", "/", "e", "/", "b">>
KeyOld == <<"old">>
\* What the buckets hold at first.
B1Choices ==
    {KeyOld :> Object(Small),
     (KeyOld :> Object(Small)) @@ (KeyA :> Object(Small))}
B2Choices == {KeyB :> Object(Exact)}

-----------------------------------------------------------------------------
(* State *)

NoCalls == [c \in {} |-> 0]
Ends == {"done", "raised", "rejected"}

ListCall == [op |-> "list_objects_v2", key |-> <<>>, result |-> "ok"]
UploadCall(key, result) == [op |-> "upload_file", key |-> key, result |-> result]

Init ==
    /\ fs \in Trees
    /\ buckets \in {[b \in BucketNames |-> IF b = "B1" THEN o1 ELSE o2] :
                        o1 \in B1Choices, o2 \in B2Choices}
    /\ manifest = NoObjects
    /\ pc = "idle"
    /\ engine = "none"
    /\ pathname = <<>>
    /\ bucket_name = "none"
    /\ root = <<>>
    /\ stack = <<>>
    /\ calls = NoCalls
    /\ etags = NoObjects
    /\ uploaded = {}
    /\ skipped = {}
    /\ net = {}
    /\ ret = None
    /\ error = "none"
    /\ runs = 0
    /\ repeat = FALSE

\* BucketManager.__init__: a manager starts with an empty manifest.
Construct ==
    /\ pc \in Ends
    /\ manifest' = NoObjects
    /\ UNCHANGED <<fs, buckets, pc, engine, pathname, bucket_name, root, stack,
                   calls, etags, uploaded, skipped, net, ret, error, runs, repeat>>

\* A call of BucketManager.sync(pathname, bucket_name), or the command
\* `webotron sync PATHNAME BUCKET`.
Call(e, pn, bn) ==
    /\ pc \in Ends \cup {"idle"}
    /\ runs < MaxRuns
    /\ runs' = runs + 1
    /\ repeat' = (pc = "done" /\ e = engine /\ bn = bucket_name
                    /\ resolve(expanduser(pn)) = root)
    /\ engine' = e
    /\ pathname' = pn
    /\ bucket_name' = bn
    /\ pc' = "called"
    /\ root' = <<>>
    /\ stack' = <<>>
    /\ calls' = NoCalls
    /\ etags' = NoObjects
    /\ uploaded' = {}
    /\ skipped' = {}
    /\ net' = {}
    /\ ret' = None
    /\ error' = "none"
    /\ UNCHANGED <<fs, buckets, manifest>>

\* sync, lines 213-214: the manifest is loaded from the bucket's listing.
LoadManifest ==
    /\ pc = "called"
    /\ engine = "BucketManager"
    /\ manifest' = load_manifest(manifest, buckets[bucket_name])
    /\ net' = net \cup {ListCall}
    /\ pc' = "loaded"
    /\ UNCHANGED <<fs, buckets, engine, pathname, bucket_name, root, stack,
                   calls, etags, uploaded, skipped, ret, error, runs, repeat>>

\* click.Path(exists=True) on PATHNAME, before the command's body runs.
Validate ==
    /\ pc = "called"
    /\ engine = "cli"
    /\ IF click_path_exists(pathname)
       THEN pc' = "validated" /\ UNCHANGED <<pathname, error>>
       ELSE pc' = "rejected" /\ error' = "BadParameter" /\ pathname' = <<>>
    /\ UNCHANGED <<fs, buckets, manifest, engine, bucket_name, root, stack,
                   calls, etags, uploaded, skipped, net, ret, runs, repeat>>

\* The frames left once the loops that have no entry left have returned.
RECURSIVE Unwind(_)
Unwind(st) ==
    IF st # <<>> /\ st[Len(st)].remaining = {}
    THEN Unwind(SubSeq(st, 1, Len(st) - 1))
    ELSE st

Frame(target) == [target |-> target, remaining |-> iterdir(target)]
Top == stack[Len(stack)]
Rest(p) == [stack EXCEPT ![Len(stack)].remaining = @ \ {p}]

\* The walk goes on with frames st, or sync returns (None) when none is left.
Continue(st) ==
    /\ stack' = Unwind(st)
    /\ pc' = IF Unwind(st) = <<>> THEN "done" ELSE "walking"
    /\ ret' = None

\* An exception leaves sync: every frame is gone.
Raise(e) ==
    /\ pc' = "raised"
    /\ error' = e
    /\ stack' = <<>>
    /\ UNCHANGED ret

\* root = Path(pathname).expanduser().resolve(); handle_directory(root)
WalkRoot ==
    /\ pc \in {"loaded", "validated"}
    /\ LET r == resolve(expanduser(pathname))
       IN  /\ root' = r
           /\ pathname' = <<>>
           /\ IF is_dir(r) THEN Continue(<<Frame(r)>>) /\ UNCHANGED error
              ELSE IF exists(r) THEN Raise("NotADirectoryError")
              ELSE Raise("FileNotFoundError")
    /\ UNCHANGED <<fs, buckets, manifest, engine, bucket_name,
                   calls, etags, uploaded, skipped, net, runs, repeat>>

-----------------------------------------------------------------------------
(* handle_directory: one entry p of target.iterdir() *)

\* for p in target.iterdir(): p is an entry the innermost loop has yet to yield.
Entry(p) == pc = "walking" /\ p \in Top.remaining

Key(p) == as_posix(relative_to(p, root))
Called(p) ==
    LET c == <<p, Key(p)>>
    IN  [x \in DOMAIN calls \cup {c} |->
            IF x = c THEN (IF c \in DOMAIN calls THEN calls[c] + 1 ELSE 1)
            ELSE calls[x]]
Computed(p) ==
    [k \in DOMAIN etags \cup {Key(p)} |->
        IF k = Key(p) THEN gen_etag(fs[p].content) ELSE etags[k]]

\* A directory that is passed over instead of walked.
VisitDirectoryFlat(p) ==
    /\ Entry(p)
    /\ is_dir(p)
    /\ Continue(Rest(p))
    /\ UNCHANGED <<fs, buckets, manifest, engine, pathname, bucket_name, root,
                   calls, etags, uploaded, skipped, net, error, runs, repeat>>

\* if p.is_dir(): handle_directory(p)
VisitDirectory(p) ==
    /\ Entry(p)
    /\ is_dir(p)
    /\ Continue(Rest(p) \o <<Frame(p)>>)
    /\ UNCHANGED <<fs, buckets, manifest, engine, pathname, bucket_name, root,
                   calls, etags, uploaded, skipped, net, error, runs, repeat>>

\* Neither a directory nor a file: the entry is passed over.
VisitOther(p) ==
    /\ Entry(p)
    /\ ~is_dir(p)
    /\ ~is_file(p)
    /\ Continue(Rest(p))
    /\ UNCHANGED <<fs, buckets, manifest, engine, pathname, bucket_name, root,
                   calls, etags, uploaded, skipped, net, error, runs, repeat>>

\* BucketManager.upload_file: open(path, 'rb') in gen_etag raises.
EtagFails(p) ==
    /\ Entry(p)
    /\ engine = "BucketManager"
    /\ is_file(p)
    /\ ~fs[p].readable
    /\ calls' = Called(p)
    /\ Raise("PermissionError")
    /\ UNCHANGED <<fs, buckets, manifest, engine, pathname, bucket_name, root,
                   etags, uploaded, skipped, net, runs, repeat>>

\* BucketManager.upload_file, lines 193-196: the etags match.
Skip(p) ==
    /\ Entry(p)
    /\ engine = "BucketManager"
    /\ is_file(p)
    /\ fs[p].readable
    /\ etags_match(manifest, Key(p), gen_etag(fs[p].content))
    /\ calls' = Called(p)
    /\ etags' = Computed(p)
    /\ skipped' = skipped \cup {Key(p)}
    /\ Continue(Rest(p))
    /\ UNCHANGED <<fs, buckets, manifest, engine, pathname, bucket_name, root,
                   uploaded, net, error, runs, repeat>>

\* BucketManager.upload_file, lines 201-209: bucket.upload_file succeeds.
Upload(p) ==
    /\ Entry(p)
    /\ engine = "BucketManager"
    /\ is_file(p)
    /\ fs[p].readable
    /\ ~etags_match(manifest, Key(p), gen_etag(fs[p].content))
    /\ calls' = Called(p)
    /\ etags' = Computed(p)
    /\ uploaded' = uploaded \cup {Key(p)}
    /\ net' = net \cup {UploadCall(Key(p), "ok")}
    /\ buckets' = [buckets EXCEPT
                     ![bucket_name] = PutObject(@, Key(p), Object(fs[p].content))]
    /\ Continue(Rest(p))
    /\ UNCHANGED <<fs, manifest, engine, pathname, bucket_name, root,
                   skipped, error, runs, repeat>>

\* A failed upload that is caught, the walk going on with the next entry.
UploadFailsCaught(p) ==
    /\ Entry(p)
    /\ engine = "BucketManager"
    /\ is_file(p)
    /\ fs[p].readable
    /\ ~etags_match(manifest, Key(p), gen_etag(fs[p].content))
    /\ calls' = Called(p)
    /\ etags' = Computed(p)
    /\ uploaded' = uploaded \cup {Key(p)}
    /\ net' = net \cup {UploadCall(Key(p), "error")}
    /\ Continue(Rest(p))
    /\ UNCHANGED <<fs, buckets, manifest, engine, pathname, bucket_name, root,
                   skipped, error, runs, repeat>>

\* BucketManager.upload_file, lines 201-209: bucket.upload_file raises.
UploadFails(p) ==
    /\ Entry(p)
    /\ engine = "BucketManager"
    /\ is_file(p)
    /\ fs[p].readable
    /\ ~etags_match(manifest, Key(p), gen_etag(fs[p].content))
    /\ calls' = Called(p)
    /\ etags' = Computed(p)
    /\ uploaded' = uploaded \cup {Key(p)}
    /\ net' = net \cup {UploadCall(Key(p), "error")}
    /\ Raise("S3UploadFailedError")
    /\ UNCHANGED <<fs, buckets, manifest, engine, pathname, bucket_name, root,
                   skipped, runs, repeat>>

\* webotron.py upload_file: every file is uploaded.
CliUpload(p) ==
    /\ Entry(p)
    /\ engine = "cli"
    /\ is_file(p)
    /\ fs[p].readable
    /\ calls' = Called(p)
    /\ uploaded' = uploaded \cup {Key(p)}
    /\ net' = net \cup {UploadCall(Key(p), "ok")}
    /\ buckets' = [buckets EXCEPT
                     ![bucket_name] = PutObject(@, Key(p), Object(fs[p].content))]
    /\ Continue(Rest(p))
    /\ UNCHANGED <<fs, manifest, engine, pathname, bucket_name, root,
                   etags, skipped, error, runs, repeat>>

\* webotron.py upload_file: s3_bucket.upload_file raises (always, when the
\* file cannot be read).
CliUploadFails(p) ==
    /\ Entry(p)
    /\ engine = "cli"
    /\ is_file(p)
    /\ calls' = Called(p)
    /\ uploaded' = uploaded \cup {Key(p)}
    /\ net' = net \cup {UploadCall(Key(p), "error")}
    /\ Raise(IF fs[p].readable THEN "S3UploadFailedError" ELSE "PermissionError")
    /\ UNCHANGED <<fs, buckets, manifest, engine, pathname, bucket_name, root,
                   etags, skipped, runs, repeat>>

Next ==
    \/ Construct
    \/ \E e \in Engines, pn \in Pathnames, bn \in BucketNames : Call(e, pn, bn)
    \/ LoadManifest
    \/ Validate
    \/ WalkRoot
    \/ \E p \in DOMAIN fs : VisitDirectory(p)
    \/ \E p \in DOMAIN fs : VisitOther(p)
    \/ \E p \in DOMAIN fs : EtagFails(p)
    \/ \E p \in DOMAIN fs : Skip(p)
    \/ \E p \in DOMAIN fs : Upload(p)
    \/ \E p \in DOMAIN fs : UploadFails(p)
    \/ \E p \in DOMAIN fs : CliUpload(p)
    \/ \E p \in DOMAIN fs : CliUploadFails(p)

Spec == Init /\ [][Next]_vars

-----------------------------------------------------------------------------
(* Properties *)

\* The regular files below r, by the kind the filesystem gives each entry.
FilesUnder(r) ==
    {p \in DOMAIN fs : /\ Len(p) > Len(r)
                       /\ SubSeq(p, 1, Len(r)) = r
                       /\ fs[p].kind = "file"}
Listing(b) == [k \in DOMAIN buckets[b] |-> buckets[b][k].etag]
PathErrors == {"FileNotFoundError", "NotADirectoryError", "BadParameter"}

\* C1: a BucketManager.sync that repeats the sync before it (same root, same
\* bucket, the first one returned, nothing else wrote to the bucket) uploads
\* nothing.
SyncIdempotent ==
    (pc = "done" /\ repeat /\ engine = "BucketManager") => uploaded = {}

\* C2: in BucketManager.upload_file the upload is invoked for key k with
\* fingerprint f iff k is not in the manifest or Manifest[k] differs from f,
\* and the file is skipped iff Manifest[k] equals f.
UploadDecision ==
    [][(engine = "BucketManager" /\ pc = "walking")
        => \A c \in DOMAIN calls' :
              (c \notin DOMAIN calls /\ fs[c[1]].readable)
              => LET k == c[2]
                     f == gen_etag(fs[c[1]].content)
                     differs == k \notin DOMAIN manifest \/ manifest[k] # f
                 IN  /\ (\E r \in {"ok", "error"} : UploadCall(k, r) \in net') <=> differs
                     /\ k \in uploaded' <=> differs
                     /\ k \in skipped' <=> ~differs]_vars

\* C2: a sync that skipped a file and uploaded an empty file whose key the
\* manifest does not hold.
UploadDecisionWitness ==
    /\ engine = "BucketManager"
    /\ pc = "done"
    /\ skipped # {}
    /\ \E c \in DOMAIN calls :
          /\ fs[c[1]].content = Empty
          /\ c[2] \notin DOMAIN manifest
          /\ UploadCall(c[2], "ok") \in net

PathRejectedBeforeNetwork ==
    (pc \in {"raised", "rejected"} /\ error \in PathErrors) => net = {}

\* C5: the etag of a file of n bytes is None when n = 0, "<hex>" when
\* 1 <= n <= CHUNK_SIZE, and "<hex>-<k>" with k = ceil(n / CHUNK_SIZE) when
\* n > CHUNK_SIZE.
EtagFormat ==
    \A c \in DOMAIN calls :
        c[2] \in DOMAIN etags
        => LET n == fs[c[1]].content.size
               e == etags[c[2]]
           IN  /\ n = 0 => e = None
               /\ (1 <= n /\ n <= CHUNK_SIZE)
                    => /\ e.type = "str"
                       /\ Len(e.s) = 3
                       /\ e.s[1] = Quote
                       /\ DOMAIN e.s[2] = {"hex"}
                       /\ e.s[3] = Quote
               /\ n > CHUNK_SIZE
                    => /\ e.type = "str"
                       /\ Len(e.s) = 5
                       /\ e.s[1] = Quote
                       /\ DOMAIN e.s[2] = {"hex"}
                       /\ e.s[3] = Dash
                       /\ e.s[4] = [num |-> (n + CHUNK_SIZE - 1) \div CHUNK_SIZE]
                       /\ e.s[5] = Quote

\* C5: a sync that fingerprinted a file of CHUNK_SIZE + 1 bytes as "<hex>-2"
\* and a file of CHUNK_SIZE bytes as "<hex>".
EtagFormatWitness ==
    /\ root = Home
    /\ {Key(PathA), Key(PathB)} \subseteq DOMAIN etags
    /\ fs[PathA].content.size = CHUNK_SIZE + 1
    /\ etags[Key(PathA)].s[4] = [num |-> 2]
    /\ fs[PathB].content.size = CHUNK_SIZE
    /\ Len(etags[Key(PathB)].s) = 3

\* C6: a file whose fingerprint cannot be computed is uploaded all the same.
EtagFailureUploads ==
    engine = "BucketManager"
    => \A c \in DOMAIN calls :
          ~fs[c[1]].readable
          => \E r \in {"ok", "error"} : UploadCall(c[2], r) \in net

\* C7: when a sync starts comparing files, the manifest is the listing of its
\* bucket.
ManifestFresh ==
    pc = "loaded" => manifest = Listing(bucket_name)

FailedCalls == {c \in net : c.result = "error"}

\* C8: once an upload has raised, sync has raised with every frame gone, the
\* uploads made before it are in the bucket, and nothing more is
\* fingerprinted, uploaded or changed in the bucket by this invocation.
FailFast ==
    /\ [](FailedCalls # {}
            => /\ pc = "raised"
               /\ error # "none"
               /\ stack = <<>>
               /\ Cardinality(FailedCalls) = 1
               /\ \A c \in DOMAIN calls :
                     UploadCall(c[2], "ok") \in net
                     => /\ c[2] \in DOMAIN buckets[bucket_name]
                        /\ buckets[bucket_name][c[2]].content = fs[c[1]].content)
    /\ [][FailedCalls # {}
            => \/ pc' = "called"
               \/ /\ calls' = calls
                  /\ etags' = etags
                  /\ uploaded' = uploaded
                  /\ skipped' = skipped
                  /\ net' = net
                  /\ buckets' = buckets]_vars

\* C8: a sync of three files that raised on its second upload: the first
\* upload is in the bucket and the third file was never handled.
FailFastWitness ==
    /\ engine = "BucketManager"
    /\ pc = "raised"
    /\ Cardinality(FilesUnder(root)) = 3
    /\ Cardinality(DOMAIN calls) = 2
    /\ FailedCalls # {}
    /\ \E c \in DOMAIN calls :
          /\ UploadCall(c[2], "ok") \in net
          /\ c[2] \in DOMAIN buckets[bucket_name]

\* The decisions a sync of root r with manifest m comes to, whatever the order
\* of the walk: the keys uploaded and the keys skipped.
KeysOf(P) == {as_posix(relative_to(p, root)) : p \in P}
Differing(m) ==
    {p \in FilesUnder(root) :
        LET k == as_posix(relative_to(p, root))
        IN  k \notin DOMAIN m \/ m[k] # gen_etag(fs[p].content)}

\* C9: every regular file under the root gets one upload_file call, under its
\* key relative to the root; nothing else gets one; the keys uploaded and
\* skipped by a sync that returns are fixed by the tree and the manifest.
ExactlyOnce ==
    /\ [](\A c \in DOMAIN calls :
             /\ calls[c] = 1
             /\ c[1] \in FilesUnder(root)
             /\ c[2] = as_posix(relative_to(c[1], root)))
    /\ [](pc = "done" => {c[1] : c \in DOMAIN calls} = FilesUnder(root))
    /\ [][(pc = "walking" /\ pc' = "done")
            => IF engine = "BucketManager"
               THEN /\ uploaded' = KeysOf(Differing(manifest))
                    /\ skipped' = KeysOf(FilesUnder(root) \ Differing(manifest))
               ELSE /\ uploaded' = KeysOf(FilesUnder(root))
                    /\ skipped' = {}]_vars

\* C9: a sync of /home that returned: a, d/c and d/e/b were each handled once,
\* d/s not at all.
ExactlyOnceWitness ==
    /\ pc = "done"
    /\ root = Home
    /\ DOMAIN calls = {<<PathA, <<"a">>>>, <<PathC, <<"d", "/", "c">>>>,
                       <<PathB, <<"d", "/", "e", "/", "b">>>>}
    /\ uploaded # {}
    /\ skipped # {}

\* C10: no step of a sync removes a key from a bucket, and an object changes
\* only in the bucket being synced, under the key of a local file uploaded in
\* this invocation, to that file's content.
OneDirectional ==
    [][\A b \in BucketNames : \A k \in DOMAIN buckets[b] :
          /\ k \in DOMAIN buckets'[b]
          /\ buckets'[b][k] # buckets[b][k]
               => /\ b = bucket_name
                  /\ UploadCall(k, "ok") \in net'
                  /\ \E p \in FilesUnder(root) :
                        /\ as_posix(relative_to(p, root)) = k
                        /\ buckets'[b][k].content = fs[p].content]_vars

\* C10: a sync that returned after replacing the object at key a; the object
\* at key old, which has no local file, is as it was.
OneDirectionalWitness ==
    /\ pc = "done"
    /\ bucket_name = "B1"
    /\ root = Home
    /\ UploadCall(KeyA, "ok") \in net
    /\ KeyOld \in DOMAIN buckets["B1"]
    /\ buckets["B1"][KeyOld] = Object(Small)
    /\ buckets["B1"][KeyA] # Object(Small)

====
